---- MODULE Spec2Model ----
(***************************************************************************)
(* Model of src/agent.ts: the SOCKS proxy agent.  parseSocksProxy turns a  *)
(* proxy spec into a descriptor and a lookup flag, the constructor builds  *)
(* the chain, and callback() establishes one tunnelled socket per request. *)
(*                                                                         *)
(* JavaScript strings are sequences of one-character strings; JavaScript   *)
(* values are records [t, s, n] whose t is the value's kind.               *)
(***************************************************************************)
EXTENDS Integers, Sequences, FiniteSets, TLC

\* ------------------------------------------------------------------------
\* JavaScript values
\* ------------------------------------------------------------------------
Undef == [t |-> "undefined", s |-> <<>>, n |-> 0]

Null == [t |-> "null", s |-> <<>>, n |-> 0]

NaN == [t |-> "NaN", s |-> <<>>, n |-> 0]

Str(x) == [t |-> "string", s |-> x, n |-> 0]

Num(k) == [t |-> "number", s |-> <<>>, n |-> k]

\* typeof v
TypeOf(v) ==
  CASE v.t = "string" -> "string"
    [] v.t \in {"number", "NaN"} -> "number"
    [] v.t = "undefined" -> "undefined"
    [] OTHER -> "object"

\* ToBoolean(v): "", 0, NaN, null and undefined are falsy
Truthy(v) ==
  CASE v.t = "string" -> v.s # <<>>
    [] v.t = "number" -> v.n # 0
    [] OTHER -> FALSE

\* a ?? b: only undefined and null give way to b
OrElse_nullish(a, b) == IF a.t \in {"undefined", "null"} THEN b ELSE a

\* a || b
OrElse(a, b) == IF Truthy(a) THEN a ELSE b

\* ------------------------------------------------------------------------
\* String literals of the source
\* ------------------------------------------------------------------------
SOCKS == <<"s", "o", "c", "k", "s">>

SOCKS4_ == SOCKS \o <<"4", ":">>

SOCKS4A_ == SOCKS \o <<"4", "a", ":">>

SOCKS5_ == SOCKS \o <<"5", ":">>

SOCKS_ == SOCKS \o <<":">>

SOCKS5H_ == SOCKS \o <<"5", "h", ":">>

\* ------------------------------------------------------------------------
\* Library functions used by the source
\* ------------------------------------------------------------------------
Digits == {"0", "1", "2", "3", "4", "5", "6", "7", "8", "9"}

DigitVal(c) ==
  CASE c = "0" -> 0 [] c = "1" -> 1 [] c = "2" -> 2 [] c = "3" -> 3
    [] c = "4" -> 4 [] c = "5" -> 5 [] c = "6" -> 6 [] c = "7" -> 7
    [] c = "8" -> 8 [] c = "9" -> 9

RECURSIVE SkipSpace(_)
SkipSpace(s) ==
  IF s # <<>> /\ Head(s) = " " THEN SkipSpace(Tail(s)) ELSE s

\* the value of the longest prefix of digits of s, continuing from acc
RECURSIVE DigitRun(_, _)
DigitRun(s, acc) ==
  IF s # <<>> /\ Head(s) \in Digits
    THEN DigitRun(Tail(s), 10 * acc + DigitVal(Head(s)))
    ELSE acc

\* parseInt(str, 10): leading blanks, an optional sign, then the longest
\* run of digits; NaN when there is no digit; what follows is ignored
parseInt(str) ==
  LET s1 == SkipSpace(str)
      neg == s1 # <<>> /\ Head(s1) = "-"
      s2 == IF s1 # <<>> /\ Head(s1) \in {"-", "+"} THEN Tail(s1) ELSE s1
  IN IF s2 = <<>> \/ Head(s2) \notin Digits
       THEN NaN
       ELSE Num(IF neg THEN 0 - DigitRun(s2, 0) ELSE DigitRun(s2, 0))

\* index of the first c in s, 0 when there is none
RECURSIVE IndexOf(_, _, _)
IndexOf(s, c, i) ==
  IF i > Len(s) THEN 0
  ELSE IF s[i] = c THEN i
  ELSE IndexOf(s, c, i + 1)

\* String.prototype.split(sep) for a one-character separator
RECURSIVE split(_, _)
split(s, sep) ==
  LET i == IndexOf(s, sep, 1)
  IN IF i = 0 THEN <<s>>
     ELSE <<SubSeq(s, 1, i - 1)>> \o split(SubSeq(s, i + 1, Len(s)), sep)

\* arr[i] of a JavaScript array of strings (i counted from 0)
At(arr, i) == IF i + 1 <= Len(arr) THEN Str(arr[i + 1]) ELSE Undef

\* ------------------------------------------------------------------------
\* parseSocksProxy
\* ------------------------------------------------------------------------
NoError == [kind |-> "none", got |-> Undef]

TypeError(kind, got) == [kind |-> kind, got |-> got]

NoProxy == [host |-> Undef, port |-> 0, type |-> 0,
            userId |-> Undef, password |-> Undef]

Thrown(e) == [err |-> e, lookup |-> FALSE, proxy |-> NoProxy]

\* parsePort without the default of lines 45-47
parsePort_noDefault(opts) ==
  LET p0 == IF TypeOf(opts.port) = "number" THEN opts.port
            ELSE IF TypeOf(opts.port) = "string" THEN parseInt(opts.port.s)
            ELSE Num(0)
  IN p0.n

\* lines 37-47: the port
parsePort(opts) ==
  LET p0 == IF TypeOf(opts.port) = "number" THEN opts.port
            ELSE IF TypeOf(opts.port) = "string" THEN parseInt(opts.port.s)
            ELSE Num(0)
  IN IF ~Truthy(p0) THEN 1080 ELSE p0.n

\* parseProtocol with lookup set in the socks4a: case as well
parseProtocol_socks4aLookup(opts) ==
  IF ~Truthy(opts.protocol)
    THEN [valid |-> TRUE, lookup |-> FALSE, type |-> 5]
  ELSE IF opts.protocol \in {Str(SOCKS4_), Str(SOCKS4A_)}
    THEN [valid |-> TRUE, lookup |-> TRUE, type |-> 4]
  ELSE IF opts.protocol = Str(SOCKS5_)
    THEN [valid |-> TRUE, lookup |-> TRUE, type |-> 5]
  ELSE IF opts.protocol \in {Str(SOCKS_), Str(SOCKS5H_)}
    THEN [valid |-> TRUE, lookup |-> FALSE, type |-> 5]
  ELSE [valid |-> FALSE, lookup |-> FALSE, type |-> 5]

\* lines 51-71: the switch on opts.protocol; valid is FALSE in the default
\* branch
parseProtocol(opts) ==
  IF ~Truthy(opts.protocol)
    THEN [valid |-> TRUE, lookup |-> FALSE, type |-> 5]
  ELSE IF opts.protocol = Str(SOCKS4_)
    THEN [valid |-> TRUE, lookup |-> TRUE, type |-> 4]
  ELSE IF opts.protocol = Str(SOCKS4A_)
    THEN [valid |-> TRUE, lookup |-> FALSE, type |-> 4]
  ELSE IF opts.protocol = Str(SOCKS5_)
    THEN [valid |-> TRUE, lookup |-> TRUE, type |-> 5]
  ELSE IF opts.protocol \in {Str(SOCKS_), Str(SOCKS5H_)}
    THEN [valid |-> TRUE, lookup |-> FALSE, type |-> 5]
  ELSE [valid |-> FALSE, lookup |-> FALSE, type |-> 5]

\* lines 87-93: the credentials
parseAuth(opts) ==
  LET auth == split(opts.auth.s, ":")
  IN IF Truthy(opts.auth)
       THEN [userId |-> At(auth, 0), password |-> At(auth, 1)]
       ELSE [userId |-> OrElse(opts.userId, opts.username),
             password |-> opts.password]

\* parseSocksProxy with the explicit type checked but not assigned
parseSocksProxy_noTypeOverride(opts) ==
  LET host == OrElse(opts.hostname, opts.host)
      port == parsePort(opts)
      proto == parseProtocol(opts)
      cred == parseAuth(opts)
  IN IF ~Truthy(host) THEN Thrown(TypeError("NoHost", Undef))
     ELSE IF ~proto.valid
       THEN Thrown(TypeError("InvalidProtocol", opts.protocol))
     ELSE IF TypeOf(opts.type) # "undefined"
             /\ opts.type \notin {Num(4), Num(5)}
       THEN Thrown(TypeError("InvalidType", opts.type))
     ELSE [err |-> NoError,
           lookup |-> proto.lookup,
           proxy |-> [host |-> host, port |-> port, type |-> proto.type,
                      userId |-> IF Truthy(cred.userId) THEN cred.userId
                                 ELSE Undef,
                      password |-> IF Truthy(cred.password) THEN cred.password
                                   ELSE Undef]]

parseSocksProxy(opts) ==
  LET host == OrElse(opts.hostname, opts.host)
      port == parsePort(opts)
      proto == parseProtocol(opts)
      type == IF TypeOf(opts.type) # "undefined" THEN opts.type.n
              ELSE proto.type
      cred == parseAuth(opts)
  IN IF ~Truthy(host) THEN Thrown(TypeError("NoHost", Undef))
     ELSE IF ~proto.valid
       THEN Thrown(TypeError("InvalidProtocol", opts.protocol))
     ELSE IF TypeOf(opts.type) # "undefined"
             /\ opts.type \notin {Num(4), Num(5)}
       THEN Thrown(TypeError("InvalidType", opts.type))
     ELSE [err |-> NoError,
           lookup |-> proto.lookup,
           proxy |-> [host |-> host, port |-> port, type |-> type,
                      userId |-> IF Truthy(cred.userId) THEN cred.userId
                                 ELSE Undef,
                      password |-> IF Truthy(cred.password) THEN cred.password
                                   ELSE Undef]]

\* ------------------------------------------------------------------------
\* url.parse: the legacy Node parser, for strings of the shape
\* [protocol:][//][auth@]hostname[:port]
\* ------------------------------------------------------------------------
ProtoChars ==
  {"a", "c", "h", "k", "o", "p", "s", "t", "g", "u", "4", "5", "+", "-", "."}

HTTP_ == <<"h", "t", "t", "p", ":">>

\* the protocols of Node's slashedProtocol table that occur in the model
slashedProtocol == {HTTP_}

RECURSIVE AllIn(_, _)
AllIn(s, set) == s = <<>> \/ (Head(s) \in set /\ AllIn(Tail(s), set))

RECURSIVE LastIndexOf(_, _, _)
LastIndexOf(s, c, i) ==
  IF i < 1 THEN 0
  ELSE IF s[i] = c THEN i
  ELSE LastIndexOf(s, c, i - 1)

NoOpts == [hostname |-> Undef, host |-> Undef, port |-> Undef,
           protocol |-> Undef, type |-> Undef, userId |-> Undef,
           username |-> Undef, password |-> Undef, auth |-> Undef]

\* the index of the colon that ends the protocol, 0 when there is none
protoEnd(str, colon) ==
  IF colon > 1 /\ AllIn(SubSeq(str, 1, colon - 1), ProtoChars) THEN colon
  ELSE 0

\* hostname and port of "hostname[:port]", pc being the last colon
splitPort(hostport, pc) ==
  IF pc > 0 /\ AllIn(SubSeq(hostport, pc + 1, Len(hostport)), Digits)
    THEN [hostname |-> SubSeq(hostport, 1, pc - 1),
          port |-> SubSeq(hostport, pc + 1, Len(hostport))]
    ELSE [hostname |-> hostport, port |-> <<>>]

\* auth, hostname and port of "[auth@]hostname[:port]", at being the last @
splitAuthority(authority, at) ==
  [auth |-> IF at > 0 THEN Str(SubSeq(authority, 1, at - 1)) ELSE Null]
    @@ splitPort(SubSeq(authority, at + 1, Len(authority)),
                 LastIndexOf(authority, ":", Len(authority)) - at)

\* the authority ends at the first slash
authorityOf(rest, slash) ==
  IF slash = 0 THEN rest ELSE SubSeq(rest, 1, slash - 1)

\* the fields of the Url object
urlFields(proto, hasHost, a) ==
  [NoOpts EXCEPT
     !.protocol = IF proto # <<>> THEN Str(proto) ELSE Null,
     !.auth = IF hasHost THEN a.auth ELSE Null,
     !.port = IF hasHost /\ a.port # <<>> THEN Str(a.port) ELSE Null,
     !.hostname = IF hasHost THEN Str(a.hostname) ELSE Null,
     !.host = IF hasHost
                THEN Str(a.hostname \o (IF a.port # <<>> THEN <<":">> \o a.port
                                        ELSE <<>>))
                ELSE Null]

\* the Url object of an authority
hostFields(proto, hasHost, authority) ==
  urlFields(proto, hasHost,
            splitAuthority(authority,
                           LastIndexOf(authority, "@", Len(authority))))

\* what follows the protocol: a host is parsed after "//", and without it
\* when the protocol is not one of slashedProtocol
urlAfterProto(proto, rest, slashes) ==
  IF slashes
    THEN hostFields(proto, TRUE,
                    authorityOf(SubSeq(rest, 3, Len(rest)),
                                IndexOf(SubSeq(rest, 3, Len(rest)), "/", 1)))
    ELSE hostFields(proto, proto # <<>> /\ proto \notin slashedProtocol,
                    authorityOf(rest, IndexOf(rest, "/", 1)))

urlSplit(str, k) ==
  urlAfterProto(SubSeq(str, 1, k), SubSeq(str, k + 1, Len(str)),
                k > 0 /\ Len(str) >= k + 2
                      /\ SubSeq(str, k + 1, k + 2) = <<"/", "/">>)

urlParse(str) == urlSplit(str, protoEnd(str, IndexOf(str, ":", 1)))

\* ------------------------------------------------------------------------
\* SocksProxyAgent constructor
\* ------------------------------------------------------------------------
\* one element of rawOpts: undefined, null, a string or an options object
ElUndef == [k |-> "undefined", s |-> <<>>, o |-> NoOpts]

ElNull == [k |-> "null", s |-> <<>>, o |-> NoOpts]

ElStr(x) == [k |-> "string", s |-> x, o |-> NoOpts]

ElObj(o) == [k |-> "object", s |-> <<>>, o |-> o]

\* !rawOpt tested as rawOpt === undefined
Falsy_undefinedOnly(el) == el.k = "undefined"

\* !rawOpt
Falsy(el) == el.k \in {"undefined", "null"} \/ (el.k = "string" /\ el.s = <<>>)

\* lines 122-126
rawOptsArray(rawOpts) ==
  IF rawOpts.isArray THEN rawOpts.items ELSE <<rawOpts.single>>

\* lines 129-142: the loop; the state after it is the opts collected so far
\* and whether the loop threw
RECURSIVE collectOpts(_, _)
collectOpts(arr, opts) ==
  IF arr = <<>> THEN [thrown |-> FALSE, opts |-> opts]
  ELSE LET rawOpt == Head(arr)
           pushed == IF rawOpt.k = "string"
                       THEN Append(opts, urlParse(rawOpt.s))
                       ELSE Append(opts, rawOpt.o)
       IN IF Falsy(rawOpt) THEN [thrown |-> TRUE, opts |-> pushed]
          ELSE collectOpts(Tail(arr), pushed)

\* the map building its result back to front
RECURSIVE mapParse_reversed(_, _)
mapParse_reversed(opts, done) ==
  IF opts = <<>> THEN [err |-> NoError, parsed |-> done]
  ELSE LET p == parseSocksProxy(Head(opts))
       IN IF p.err # NoError THEN [err |-> p.err, parsed |-> <<p>> \o done]
          ELSE mapParse_reversed(Tail(opts), <<p>> \o done)

\* the map leaving out the elements whose parse throws
RECURSIVE mapParse_skipInvalid(_, _)
mapParse_skipInvalid(opts, done) ==
  IF opts = <<>> THEN [err |-> NoError, parsed |-> done]
  ELSE LET p == parseSocksProxy(Head(opts))
       IN IF p.err # NoError THEN mapParse_skipInvalid(Tail(opts), done)
          ELSE mapParse_skipInvalid(Tail(opts), Append(done, p))

\* opts.map(o => parseSocksProxy(o)): the first element that throws ends it
RECURSIVE mapParse(_, _)
mapParse(opts, done) ==
  IF opts = <<>> THEN [err |-> NoError, parsed |-> done]
  ELSE LET p == parseSocksProxy(Head(opts))
       IN IF p.err # NoError THEN [err |-> p.err, parsed |-> Append(done, p)]
          ELSE mapParse(Tail(opts), Append(done, p))

NoAgent == [status |-> "none", err |-> NoError, lookups |-> <<>>,
            proxies |-> <<>>, parseCalls |-> 0]

\* the constructor threw e after calls calls of parseSocksProxy
FailedAgent(e, calls) == [status |-> "failed", err |-> e, lookups |-> <<>>,
                          proxies |-> <<>>, parseCalls |-> calls]

constructor(rawOpts) ==
  LET c == collectOpts(rawOptsArray(rawOpts), <<>>)
      m == mapParse(c.opts, <<>>)
  IN IF c.thrown THEN FailedAgent(TypeError("EmptySpec", Undef), 0)
     ELSE IF m.err # NoError THEN FailedAgent(m.err, Len(m.parsed))
     ELSE [status |-> "ok", err |-> NoError,
           lookups |-> [i \in 1..Len(m.parsed) |-> m.parsed[i].lookup],
           proxies |-> [i \in 1..Len(m.parsed) |-> m.parsed[i].proxy],
           parseCalls |-> Len(m.parsed)]

\* ------------------------------------------------------------------------
\* SocksProxyAgent.callback
\* ------------------------------------------------------------------------
\* lookups.length>0 && lookups: the second operand is the array object
\* itself, which is truthy whatever it holds
needLookup(lookups) == Len(lookups) > 0 /\ TRUE

\* omit(obj, ...keys)
omit(obj, keys) == [k \in (DOMAIN obj) \ keys |-> obj[k]]

\* lines 173-192: the SOCKS request the callback builds
socksRequest(proxies, host, port) ==
  IF Len(proxies) = 1
    THEN [kind |-> "createConnection", proxies |-> <<proxies[1]>>,
          destination |-> [host |-> host, port |-> port],
          command |-> "connect"]
    ELSE [kind |-> "createConnectionChain", proxies |-> proxies,
          destination |-> [host |-> host, port |-> port],
          command |-> "connect"]

NoRequest == [kind |-> "none", proxies |-> <<>>,
              destination |-> [host |-> Undef, port |-> 0],
              command |-> "none"]

\* the server name taken from the request's host, not the tunnel's
tlsOptions_requestHost(opts, host, socket) ==
  [socket |-> socket, servername |-> OrElse(opts.servername, opts.host)]
    @@ omit(opts, {"host", "hostname", "path", "port"})

\* lines 198-203: the options handed to tls.connect
tlsOptions(opts, host, socket) ==
  [socket |-> socket, servername |-> OrElse(opts.servername, host)]
    @@ omit(opts, {"host", "hostname", "path", "port"})

NoCtx == [host |-> Undef, port |-> 0, path |-> Undef,
          secureEndpoint |-> FALSE, servername |-> Undef,
          rejectUnauthorized |-> TRUE]

IdleReq == [pc |-> "Idle", opts |-> NoCtx, host |-> Undef,
            dnsCalls |-> 0, dnsArg |-> Undef,
            socksCalls |-> 0, socks |-> NoRequest, socket |-> 0,
            tlsCalls |-> 0, tls |-> <<>>, tlsState |-> "none",
            returned |-> "none", error |-> "none"]

\* ------------------------------------------------------------------------
\* Bounds and inputs
\* ------------------------------------------------------------------------
MaxChain == 2

NumReqs == 2

MaxPortLen == 2

MaxAuthLen == 3

Reqs == 1..NumReqs

Strings(alphabet, n) == UNION {[1..k -> alphabet] : k \in 0..n}

A == <<"a">>

B == <<"b">>

G == <<"g">>

H == <<"h">>

\* socks://h:8
UrlSocks == SOCKS_ \o <<"/", "/", "h", ":", "8">>

\* socks5://u:p@h
UrlSocks5 == SOCKS5_ \o <<"/", "/", "u", ":", "p", "@", "h">>

\* http://h
UrlHttp == HTTP_ \o <<"/", "/", "h">>

ObjSocks4a == [NoOpts EXCEPT !.hostname = Str(G), !.host = Str(G \o <<":", "0">>),
                             !.protocol = Str(SOCKS4A_), !.port = Num(0)]

ObjNoHost == [NoOpts EXCEPT !.protocol = Str(SOCKS_), !.port = Num(8)]

ObjBadType == [NoOpts EXCEPT !.host = Str(G), !.type = Num(6)]

ValidElems == {ElStr(UrlSocks), ElStr(UrlSocks5), ElObj(ObjSocks4a)}

FalsyElems == {ElUndef, ElNull, ElStr(<<>>)}

InvalidElems == {ElStr(UrlHttp), ElObj(ObjNoHost), ElObj(ObjBadType)}

ElemSet == ValidElems \cup FalsyElems \cup InvalidElems

RawOptsSet ==
  {[isArray |-> FALSE, items |-> <<>>, single |-> e] : e \in ElemSet}
  \cup {[isArray |-> TRUE, items |-> a, single |-> ElUndef] :
          a \in UNION {[1..k -> ElemSet] : k \in 0..MaxChain}}

Ctx(host, port, secure, servername) ==
  [NoCtx EXCEPT !.host = host, !.port = port, !.path = Str(<<"/">>),
                !.secureEndpoint = secure, !.servername = servername,
                !.rejectUnauthorized = ~secure]

ReqCtxSet == {Ctx(Undef, 80, FALSE, Undef),
              Ctx(Str(<<>>), 443, TRUE, Undef),
              Ctx(Str(A), 80, FALSE, Undef),
              Ctx(Str(A), 443, TRUE, Undef),
              Ctx(Str(B), 443, TRUE, Str(<<"n">>))}

\* the address the resolver holds for each destination host name
dnsAnswer(host) == IF host = A THEN <<"1">> ELSE <<"2">>

\* inputs of parseSocksProxy: every port against every host, protocol and
\* type, and every credential combination
PortSet ==
  {Undef, Null, NaN, Num(0 - 1), Num(0), Num(80), Num(65535), Num(65536)}
  \cup {Str(p) : p \in Strings({"8", "0", "x", "-"}, MaxPortLen)}

ProtocolSet ==
  {Undef, Null, Str(SOCKS4_), Str(SOCKS4A_), Str(SOCKS5_), Str(SOCKS_),
   Str(SOCKS5H_), Str(HTTP_)}

TypeSet == {Undef, Null, Num(0), Num(4), Num(5), Num(6), Str(<<"5">>)}

AuthSet == {Undef} \cup {Str(a) : a \in Strings({"a", ":"}, MaxAuthLen)}

ParseInputs ==
  {[NoOpts EXCEPT !.hostname = hn, !.host = h, !.port = p, !.protocol = pr,
                  !.type = ty] :
     hn \in {Undef, Null, Str(<<>>), Str(H)}, h \in {Undef, Str(<<>>), Str(G)},
     p \in PortSet,
     pr \in ProtocolSet, ty \in TypeSet}
  \cup
  {[NoOpts EXCEPT !.host = Str(G), !.protocol = pr, !.userId = u,
                  !.username = n, !.password = pw, !.auth = au] :
     pr \in {Undef, Str(SOCKS5_)}, u \in {Undef, Str(<<"u">>)},
     n \in {Undef, Str(<<"n">>)}, pw \in {Undef, Str(<<"p">>)},
     au \in AuthSet}

\* ------------------------------------------------------------------------
\* State
\* ------------------------------------------------------------------------
VARIABLES
  rawOpts,  \* the constructor's argument
  agent,    \* the agent: status, the error thrown, lookups, proxies
  reqs,     \* the callback invocations, one record each
  popts,    \* the argument of a parseSocksProxy call studied by itself
  pres      \* its result

vars == <<rawOpts, agent, reqs, popts, pres>>

NoRawOpts == [isArray |-> FALSE, items |-> <<>>, single |-> ElUndef]

NotParsed == [done |-> FALSE, r |-> Thrown(NoError)]

Init ==
  /\ rawOpts = NoRawOpts
  /\ agent = NoAgent
  /\ reqs = [r \in Reqs |-> IdleReq]
  /\ popts = NoOpts
  /\ pres = NotParsed

\* new SocksProxyAgent(rawOpts)
Construct ==
  /\ agent.status = "none"
  /\ \E ro \in RawOptsSet :
       /\ rawOpts' = ro
       /\ agent' = constructor(ro)
  /\ UNCHANGED <<reqs, popts, pres>>

\* the destination host kept in a place shared by the calls, here the one
\* of the first call
startTunnel_sharedHost(q, host) ==
  [q EXCEPT !.pc = "TunnelEstablishing", !.host = host,
            !.socksCalls = @ + 1,
            !.socks = socksRequest(agent.proxies, reqs[1].host, q.opts.port)]

\* from the await of the SOCKS client on: lines 181/190
startTunnel(q, host) ==
  [q EXCEPT !.pc = "TunnelEstablishing", !.host = host,
            !.socksCalls = @ + 1,
            !.socks = socksRequest(agent.proxies, host, q.opts.port)]

\* callback without the host check of lines 164-166
Callback_noHostCheck(r) ==
  /\ agent.status = "ok"
  /\ reqs[r].pc = "Idle"
  /\ \E opts \in ReqCtxSet :
       LET q == [reqs[r] EXCEPT !.opts = opts, !.host = opts.host]
       IN reqs' = [reqs EXCEPT ![r] =
            IF needLookup(agent.lookups)
              THEN [q EXCEPT !.pc = "Resolving", !.dnsCalls = @ + 1,
                             !.dnsArg = opts.host]
            ELSE startTunnel(q, opts.host)]
  /\ UNCHANGED <<rawOpts, agent, popts, pres>>

\* callback(req, opts) up to its first await
Callback(r) ==
  /\ agent.status = "ok"
  /\ reqs[r].pc = "Idle"
  /\ \E opts \in ReqCtxSet :
       LET q == [reqs[r] EXCEPT !.opts = opts, !.host = opts.host]
       IN reqs' = [reqs EXCEPT ![r] =
            IF ~Truthy(opts.host)
              THEN [q EXCEPT !.pc = "Failed", !.error = "NoHost"]
            ELSE IF needLookup(agent.lookups)
              THEN [q EXCEPT !.pc = "Resolving", !.dnsCalls = @ + 1,
                             !.dnsArg = opts.host]
            ELSE startTunnel(q, opts.host)]
  /\ UNCHANGED <<rawOpts, agent, popts, pres>>

\* dns.lookup calls back with an address
DnsResolve(r) ==
  /\ reqs[r].pc = "Resolving"
  /\ reqs' = [reqs EXCEPT ![r] =
                startTunnel(reqs[r], Str(dnsAnswer(reqs[r].dnsArg.s)))]
  /\ UNCHANGED <<rawOpts, agent, popts, pres>>

\* the lookup error caught and the tunnel built for the unresolved host
DnsReject_continue(r) ==
  /\ reqs[r].pc = "Resolving"
  /\ reqs' = [reqs EXCEPT ![r] =
                startTunnel([reqs[r] EXCEPT !.error = "DnsError"],
                            reqs[r].opts.host)]
  /\ UNCHANGED <<rawOpts, agent, popts, pres>>

\* the lookup tried a second time before its error is given up on
DnsReject_retry(r) ==
  /\ reqs[r].pc = "Resolving"
  /\ reqs' = [reqs EXCEPT ![r] =
                IF reqs[r].dnsCalls < 2
                  THEN [reqs[r] EXCEPT !.dnsCalls = @ + 1]
                  ELSE [reqs[r] EXCEPT !.pc = "Failed", !.error = "DnsError"]]
  /\ UNCHANGED <<rawOpts, agent, popts, pres>>

\* the lookup error dropped: the promise of dnsLookup never settles
DnsReject_pending(r) ==
  /\ reqs[r].pc = "Resolving"
  /\ reqs' = [reqs EXCEPT ![r].pc = "Pending"]
  /\ UNCHANGED <<rawOpts, agent, popts, pres>>

\* dns.lookup calls back with an error
DnsReject(r) ==
  /\ reqs[r].pc = "Resolving"
  /\ reqs' = [reqs EXCEPT ![r].pc = "Failed", ![r].error = "DnsError"]
  /\ UNCHANGED <<rawOpts, agent, popts, pres>>

\* the callback returning the tunnelled socket without the TLS upgrade
afterTunnel_noUpgrade(q, socket) ==
  [q EXCEPT !.pc = "Ready", !.socket = socket, !.returned = "socket"]

\* lines 194-206, after the SOCKS client resolved with a socket
afterTunnel(q, socket) ==
  IF q.opts.secureEndpoint
    THEN [q EXCEPT !.pc = "Ready", !.socket = socket, !.tlsCalls = @ + 1,
                   !.tls = tlsOptions(q.opts, q.host, socket),
                   !.tlsState = "handshaking", !.returned = "tlsSocket"]
    ELSE [q EXCEPT !.pc = "Ready", !.socket = socket, !.returned = "socket"]

\* the SOCKS client resolves: the tunnel to the destination is established
SocksResolve(r) ==
  /\ reqs[r].pc = "TunnelEstablishing"
  /\ reqs' = [reqs EXCEPT ![r] = afterTunnel(reqs[r], r)]
  /\ UNCHANGED <<rawOpts, agent, popts, pres>>

\* the SOCKS error caught and lines 194-206 run without a socket
SocksReject_upgrade(r) ==
  /\ reqs[r].pc = "TunnelEstablishing"
  /\ reqs' = [reqs EXCEPT ![r] =
                [afterTunnel(reqs[r], 0) EXCEPT !.error = "SocksError"]]
  /\ UNCHANGED <<rawOpts, agent, popts, pres>>

\* the SOCKS client rejects: some hop failed
SocksReject(r) ==
  /\ reqs[r].pc = "TunnelEstablishing"
  /\ reqs' = [reqs EXCEPT ![r].pc = "Failed", ![r].error = "SocksError"]
  /\ UNCHANGED <<rawOpts, agent, popts, pres>>

\* the TLS socket started by tls.connect emits 'secureConnect'
TlsSecureConnect(r) ==
  /\ reqs[r].tlsState = "handshaking"
  /\ reqs' = [reqs EXCEPT ![r].tlsState = "secure"]
  /\ UNCHANGED <<rawOpts, agent, popts, pres>>

\* the TLS socket started by tls.connect emits 'error'
TlsError(r) ==
  /\ reqs[r].tlsState = "handshaking"
  /\ reqs' = [reqs EXCEPT ![r].tlsState = "error"]
  /\ UNCHANGED <<rawOpts, agent, popts, pres>>

Next ==
  \/ Construct
  \/ \E r \in Reqs : Callback(r)
  \/ \E r \in Reqs : DnsResolve(r)
  \/ \E r \in Reqs : DnsReject(r)
  \/ \E r \in Reqs : SocksResolve(r)
  \/ \E r \in Reqs : SocksReject(r)
  \/ \E r \in Reqs : TlsSecureConnect(r)
  \/ \E r \in Reqs : TlsError(r)

Spec == Init /\ [][Next]_vars

\* every external operation a callback started completes: the lookup and
\* the SOCKS connection call back, the TLS socket emits one of its events
Completes(r) ==
  /\ WF_vars(DnsResolve(r) \/ DnsReject(r))
  /\ WF_vars(SocksResolve(r) \/ SocksReject(r))
  /\ WF_vars(TlsSecureConnect(r) \/ TlsError(r))

\* the agents the callbacks are run on when every operation completes: one
\* hop without and with the lookup flag, two hops, and the empty chain
FairRawOptsSet ==
  {[isArray |-> FALSE, items |-> <<>>, single |-> ElStr(UrlSocks)],
   [isArray |-> FALSE, items |-> <<>>, single |-> ElStr(UrlSocks5)],
   [isArray |-> TRUE, items |-> <<ElObj(ObjSocks4a), ElStr(UrlSocks5)>>,
    single |-> ElUndef],
   [isArray |-> TRUE, items |-> <<>>, single |-> ElUndef]}

\* the state after new SocksProxyAgent(rawOpts) returned
InitFair ==
  /\ rawOpts \in FairRawOptsSet
  /\ agent = constructor(rawOpts)
  /\ reqs = [r \in Reqs |-> IdleReq]
  /\ popts = NoOpts
  /\ pres = NotParsed

NextFair ==
  \/ \E r \in Reqs : Callback(r)
  \/ \E r \in Reqs : DnsResolve(r)
  \/ \E r \in Reqs : DnsReject(r)
  \/ \E r \in Reqs : SocksResolve(r)
  \/ \E r \in Reqs : SocksReject(r)
  \/ \E r \in Reqs : TlsSecureConnect(r)
  \/ \E r \in Reqs : TlsError(r)

SpecFair ==
  InitFair /\ [][NextFair]_vars /\ \A r \in Reqs : Completes(r)

\* parseSocksProxy by itself, over ParseInputs
InitParse ==
  /\ rawOpts = NoRawOpts
  /\ agent = NoAgent
  /\ reqs = [r \in Reqs |-> IdleReq]
  /\ popts \in ParseInputs
  /\ pres = NotParsed

Parse ==
  /\ ~pres.done
  /\ pres' = [done |-> TRUE, r |-> parseSocksProxy(popts)]
  /\ UNCHANGED <<rawOpts, agent, reqs, popts>>

NextParse == Parse

SpecParse == InitParse /\ [][NextParse]_vars

\* ------------------------------------------------------------------------
\* Properties
\* ------------------------------------------------------------------------
\* the options object the constructor collects for an element
ElemOpts(el) == IF el.k = "string" THEN urlParse(el.s) ELSE el.o

\* the elements the constructor iterates over
Elements == rawOptsArray(rawOpts)

Constructed == agent.status # "none"

Called(r) == reqs[r].pc # "Idle"

AnyFlag == \E i \in 1..Len(agent.lookups) : agent.lookups[i]

\* C1: a callback performs the DNS lookup of the destination host if and
\* only if some hop of the chain has its lookup flag set; when no hop has,
\* the unresolved destination host is the one in the SOCKS request.
C1_LookupIffAnyFlag ==
  \A r \in Reqs :
    Called(r) /\ Truthy(reqs[r].opts.host) =>
      /\ (reqs[r].dnsCalls > 0) <=> AnyFlag
      /\ ~AnyFlag /\ reqs[r].socksCalls > 0 =>
           reqs[r].socks.destination.host = reqs[r].opts.host

\* C2: the scheme decides (type, lookup flag): socks4: (4, true),
\* socks4a: (4, false), socks5: (5, true), socks: and socks5h: (5, false),
\* no scheme (5, false); any other scheme fails with the error that names it.
\* The type is the scheme's when no explicit type is given.
C2_SchemeMapping ==
  pres.done /\ Truthy(OrElse(popts.hostname, popts.host))
            /\ popts.type \in {Undef, Num(4), Num(5)} =>
    LET pr == popts.protocol
        res == pres.r
        maps(ty, flag) ==
          /\ res.err = NoError
          /\ res.lookup = flag
          /\ popts.type = Undef => res.proxy.type = ty
    IN CASE pr = Str(SOCKS4_) -> maps(4, TRUE)
         [] pr = Str(SOCKS4A_) -> maps(4, FALSE)
         [] pr = Str(SOCKS5_) -> maps(5, TRUE)
         [] pr = Str(SOCKS_) -> maps(5, FALSE)
         [] pr = Str(SOCKS5H_) -> maps(5, FALSE)
         [] pr \in {Undef, Null} -> maps(5, FALSE)
         [] OTHER -> res.err = TypeError("InvalidProtocol", pr)

C2_Witness ==
  /\ pres.done
  /\ popts.protocol = Str(SOCKS4A_)
  /\ popts.type = Undef
  /\ pres.r.err = NoError
  /\ pres.r.proxy.type = 4
  /\ ~pres.r.lookup

\* the host and port written in each valid element of ElemSet
WrittenHost(el) ==
  CASE el = ElStr(UrlSocks) -> Str(H)
    [] el = ElStr(UrlSocks5) -> Str(H)
    [] el = ElObj(ObjSocks4a) -> Str(G)

WrittenPort(el) ==
  CASE el = ElStr(UrlSocks) -> 8
    [] el = ElStr(UrlSocks5) -> 1080
    [] el = ElObj(ObjSocks4a) -> 1080

\* C3: an array of N valid specs gives N descriptors and N flags, the i-th
\* being the parse of the i-th element, with the element's host and port.
C3_ChainMatchesInput ==
  Constructed /\ rawOpts.isArray
              /\ (\A i \in 1..Len(rawOpts.items) :
                    rawOpts.items[i] \in ValidElems) =>
    /\ agent.status = "ok"
    /\ Len(agent.proxies) = Len(rawOpts.items)
    /\ Len(agent.lookups) = Len(rawOpts.items)
    /\ \A i \in 1..Len(rawOpts.items) :
         LET p == parseSocksProxy(ElemOpts(rawOpts.items[i]))
         IN /\ agent.proxies[i] = p.proxy
            /\ agent.lookups[i] = p.lookup
            /\ agent.proxies[i].host = WrittenHost(rawOpts.items[i])
            /\ agent.proxies[i].port = WrittenPort(rawOpts.items[i])

C3_Witness ==
  /\ agent.status = "ok"
  /\ rawOpts.isArray
  /\ Len(rawOpts.items) >= 2
  /\ rawOpts.items[1] = ElObj(ObjSocks4a)
  /\ rawOpts.items[2] = ElStr(UrlSocks)
  /\ agent.proxies[1].host = Str(G)
  /\ agent.proxies[2].host = Str(H)
  /\ agent.proxies[2].port = 8

HasFalsyElement == \E i \in 1..Len(Elements) : Elements[i] \in FalsyElems

HasInvalidElement == \E i \in 1..Len(Elements) : Elements[i] \in InvalidElems

\* C4: constructing with no spec or with a falsy element at any position
\* fails with the empty-spec error, whatever the other elements are, before
\* parseSocksProxy is called, and leaves no agent.
C4_FalsyElementFails ==
  Constructed /\ HasFalsyElement =>
    /\ agent.status = "failed"
    /\ agent.err = TypeError("EmptySpec", Undef)
    /\ agent.parseCalls = 0
    /\ agent.proxies = <<>>
    /\ agent.lookups = <<>>

C4_Witness ==
  /\ agent.status = "failed"
  /\ agent.err.kind = "EmptySpec"
  /\ rawOpts.isArray
  /\ Len(rawOpts.items) >= 2
  /\ rawOpts.items[1] = ElStr(UrlHttp)
  /\ rawOpts.items[2] = ElNull

\* C5: every agent whose construction succeeds holds a non-empty chain.
C5_ChainNonEmpty ==
  agent.status = "ok" => Len(agent.proxies) > 0 /\ Len(agent.lookups) > 0

\* C6: every descriptor of a successful parse has type 4 or 5, a port in
\* 1..65535 and a non-empty host, whatever port the spec carried.
C6_DescriptorInvariant ==
  pres.done /\ pres.r.err = NoError =>
    /\ pres.r.proxy.type \in {4, 5}
    /\ pres.r.proxy.port \in 1..65535
    /\ Truthy(pres.r.proxy.host)

\* C7: a port that is absent, zero or a string that does not parse as a
\* base-10 number gives port 1080; a non-zero number, or a string parsing to
\* a non-zero number, gives that number.
C7_PortDefault ==
  pres.done /\ pres.r.err = NoError =>
    LET p == popts.port
        port == pres.r.proxy.port
    IN /\ p \in {Undef, Null, Num(0)} => port = 1080
       /\ p.t = "string" /\ parseInt(p.s) \in {NaN, Num(0)} => port = 1080
       /\ p.t = "number" /\ p.n # 0 => port = p.n
       /\ p.t = "string" /\ parseInt(p.s).t = "number" /\ parseInt(p.s).n # 0
            => port = parseInt(p.s).n
       /\ p = Str(<<"8", "0">>) => port = 80
       /\ p = Str(<<"x", "8">>) => port = 1080

C7_Witness ==
  /\ pres.done
  /\ pres.r.err = NoError
  /\ popts.port = Str(<<"x">>)
  /\ pres.r.proxy.port = 1080

\* a credential is attached to the descriptor when it is non-empty
Attached(x) == IF x = <<>> THEN Undef ELSE Str(x)

\* C8: with auth of the form userId:password, userId is the text before the
\* first colon and password all the text after it, replacing the separate
\* fields; without auth, userId is userId, else username, and password is
\* password.
C8_AuthSplitFirstColon ==
  pres.done /\ pres.r.err = NoError =>
    LET a == popts.auth.s
        i == IndexOf(a, ":", 1)
    IN /\ Truthy(popts.auth) /\ i > 0 =>
            /\ pres.r.proxy.userId = Attached(SubSeq(a, 1, i - 1))
            /\ pres.r.proxy.password = Attached(SubSeq(a, i + 1, Len(a)))
       /\ popts.auth = Undef =>
            /\ pres.r.proxy.userId =
                 (IF popts.userId # Undef THEN popts.userId
                  ELSE popts.username)
            /\ pres.r.proxy.password = popts.password

\* C9: a configuration error in any element is fatal to the construction:
\* no agent and no partial chain, whatever the other elements are.
C9_InvalidElementFatal ==
  Constructed /\ HasInvalidElement =>
    /\ agent.status = "failed"
    /\ agent.err.kind \in {"EmptySpec", "NoHost", "InvalidProtocol",
                           "InvalidType"}
    /\ ~HasFalsyElement => agent.err.kind # "EmptySpec"
    /\ agent.proxies = <<>>
    /\ agent.lookups = <<>>

C9_Witness ==
  /\ agent.status = "failed"
  /\ rawOpts.isArray
  /\ Len(rawOpts.items) >= 2
  /\ rawOpts.items[1] = ElStr(UrlSocks)
  /\ rawOpts.items[Len(rawOpts.items)] = ElObj(ObjBadType)
  /\ agent.err = TypeError("InvalidType", Num(6))
  /\ agent.proxies = <<>>

C11_TunnelFailureFails ==
  \A r \in Reqs :
    reqs[r].error = "SocksError" =>
      /\ reqs[r].pc = "Failed"
      /\ reqs[r].socksCalls = 1
      /\ reqs[r].tlsCalls = 0
      /\ reqs[r].tlsState = "none"
      /\ reqs[r].socket = 0
      /\ reqs[r].returned = "none"

C11_Witness ==
  \E r \in Reqs :
    /\ reqs[r].error = "SocksError"
    /\ reqs[r].pc = "Failed"
    /\ reqs[r].opts.secureEndpoint
    /\ reqs[r].socks.kind = "createConnectionChain"
    /\ Len(agent.proxies) >= 2

\* C12: when the DNS lookup of the destination fails, the callback fails
\* with the resolver's error and no SOCKS connection and no TLS handshake is
\* ever started for the request.
C12_DnsFailureFails ==
  \A r \in Reqs :
    reqs[r].error = "DnsError" =>
      /\ reqs[r].pc = "Failed"
      /\ reqs[r].dnsCalls = 1
      /\ reqs[r].socksCalls = 0
      /\ reqs[r].socks = NoRequest
      /\ reqs[r].tlsCalls = 0
      /\ reqs[r].tlsState = "none"
      /\ reqs[r].returned = "none"

C12_Witness ==
  \E r \in Reqs :
    /\ reqs[r].error = "DnsError"
    /\ reqs[r].pc = "Failed"
    /\ reqs[r].opts.secureEndpoint
    /\ reqs[r].socksCalls = 0


\* the destination a call derives from its own context and DNS answer
OwnDestination(q) ==
  [host |-> IF q.dnsCalls > 0 THEN Str(dnsAnswer(q.opts.host.s))
            ELSE q.opts.host,
   port |-> q.opts.port]

C13_OwnContext ==
  \A r \in Reqs :
    LET q == reqs[r]
    IN /\ q.dnsCalls > 0 => q.dnsArg = q.opts.host
       /\ q.socksCalls > 0 =>
            /\ q.socks.destination = OwnDestination(q)
            /\ q.socks.proxies = agent.proxies
       /\ q.tlsCalls > 0 =>
            /\ q.tls.socket = r
            /\ q.tls.servername =
                 (IF Truthy(q.opts.servername) THEN q.opts.servername
                  ELSE OwnDestination(q).host)

C13_ChainFixed ==
  /\ agent.status = "ok" => agent' = agent
  /\ \A r1, r2 \in Reqs :
       r1 # r2 => reqs'[r1] = reqs[r1] \/ reqs'[r2] = reqs[r2]

\* C13: across any interleaving of concurrent callbacks on one agent the
\* chain is never changed after construction, a step touches one call only,
\* and each call's SOCKS destination and TLS server name come from its own
\* request context and its own DNS answer.
C13_ConcurrentCallsIndependent == []C13_OwnContext /\ [][C13_ChainFixed]_vars

C13_Witness ==
  /\ reqs[1].pc = "TunnelEstablishing"
  /\ reqs[2].pc = "Resolving"
  /\ reqs[1].dnsCalls = 1
  /\ reqs[1].opts.host = Str(A)
  /\ reqs[2].opts.host = Str(B)
  /\ reqs[1].socks.destination.host = Str(dnsAnswer(A))


Ended(q) == q.pc \in {"Ready", "Failed"}

\* at most one call of each kind, and the one SOCKS call whenever the
\* callback got past the host check and the lookup
C14_Counts ==
  \A r \in Reqs :
    LET q == reqs[r]
    IN /\ q.dnsCalls <= 1
       /\ q.socksCalls <= 1
       /\ q.tlsCalls <= 1
       /\ q.pc \in {"TunnelEstablishing", "Ready"} => q.socksCalls = 1
       /\ q.pc = "Failed" /\ q.error \notin {"NoHost", "DnsError"} =>
            q.socksCalls = 1
       /\ q.pc = "Failed" /\ q.error \in {"NoHost", "DnsError"} =>
            q.socksCalls = 0

C14_NothingAfterEnd ==
  \A r \in Reqs : Ended(reqs[r]) => reqs'[r] = reqs[r]

C14_NoCallAfterEnd ==
  \A r \in Reqs :
    Ended(reqs[r]) =>
      reqs'[r] = [reqs[r] EXCEPT !.tlsState = reqs'[r].tlsState]

C15_SingleOrChain ==
  \A r \in Reqs :
    LET q == reqs[r]
    IN q.socksCalls > 0 =>
         /\ Len(agent.proxies) = 1 =>
              /\ q.socks.kind = "createConnection"
              /\ q.socks.proxies = <<agent.proxies[1]>>
         /\ Len(agent.proxies) > 1 =>
              /\ q.socks.kind = "createConnectionChain"
              /\ q.socks.proxies = agent.proxies
         /\ q.socks.destination.host \in
              {q.opts.host, Str(dnsAnswer(q.opts.host.s))}
         /\ q.socks.destination.port = q.opts.port
         /\ q.socks.command = "connect"
         /\ q.socks.kind = "createConnectionChain" =>
              Len(q.socks.proxies) >= 2


\* C16: tls.connect is called if and only if the request has secureEndpoint
\* set, over the tunnelled socket of the same request, with the servername
\* override when one is given and else the destination host used for the
\* tunnel, and without the request's host, hostname, path and port; a
\* request without secureEndpoint gets the tunnelled socket itself.
C16_TlsUpgrade ==
  \A r \in Reqs :
    LET q == reqs[r]
    IN /\ q.pc # "Ready" => q.tlsCalls = 0
       /\ q.pc = "Ready" =>
            /\ (q.tlsCalls = 1) <=> q.opts.secureEndpoint
            /\ q.socket = r
            /\ q.opts.secureEndpoint =>
                 /\ q.returned = "tlsSocket"
                 /\ q.tls.socket = q.socket
                 /\ q.tls.servername =
                      (IF Truthy(q.opts.servername) THEN q.opts.servername
                       ELSE q.socks.destination.host)
                 /\ (DOMAIN q.tls) \cap {"host", "hostname", "path", "port"}
                      = {}
                 /\ q.tls.rejectUnauthorized = q.opts.rejectUnauthorized
                 /\ q.tls.secureEndpoint
            /\ ~q.opts.secureEndpoint =>
                 /\ q.returned = "socket"
                 /\ q.tls = <<>>
                 /\ q.tlsState = "none"

C16_Witness ==
  \E r \in Reqs :
    /\ reqs[r].pc = "Ready"
    /\ reqs[r].opts.secureEndpoint
    /\ reqs[r].opts.servername = Undef
    /\ reqs[r].opts.host = Str(A)
    /\ reqs[r].dnsCalls = 1
    /\ reqs[r].tls.servername = Str(dnsAnswer(A))


\* the lookup flag of a scheme
SchemeFlag(pr) == pr \in {Str(SOCKS4_), Str(SOCKS5_)}

\* C17: an explicit type of 4 or 5 replaces the type of the scheme and
\* leaves the scheme's lookup flag as it is; any other defined type fails
\* with the invalid-type error.
C17_ExplicitType ==
  pres.done /\ Truthy(OrElse(popts.hostname, popts.host))
            /\ popts.protocol # Str(HTTP_) =>
    /\ popts.type \in {Num(4), Num(5)} =>
         /\ pres.r.err = NoError
         /\ pres.r.proxy.type = popts.type.n
         /\ pres.r.lookup = SchemeFlag(popts.protocol)
    /\ popts.type \notin {Undef, Num(4), Num(5)} =>
         pres.r.err = TypeError("InvalidType", popts.type)

C17_Witness ==
  /\ pres.done
  /\ popts.protocol = Str(SOCKS4_)
  /\ popts.type = Num(5)
  /\ pres.r.err = NoError
  /\ pres.r.proxy.type = 5
  /\ pres.r.lookup


\* C18: a callback whose options have no destination host fails with the
\* no-host error before any DNS lookup, SOCKS connection or TLS handshake is
\* started, and the agent's chain stays the constructed one.
C18_NoHostFails ==
  \A r \in Reqs :
    Called(r) /\ ~Truthy(reqs[r].opts.host) =>
      /\ reqs[r].pc = "Failed"
      /\ reqs[r].error = "NoHost"
      /\ reqs[r].dnsCalls = 0
      /\ reqs[r].socksCalls = 0
      /\ reqs[r].tlsCalls = 0
      /\ reqs[r].returned = "none"
      /\ agent = constructor(rawOpts)

C18_Witness ==
  \E r \in Reqs :
    /\ reqs[r].pc = "Failed"
    /\ reqs[r].error = "NoHost"
    /\ reqs[r].opts.host = Str(<<>>)
    /\ reqs[r].opts.secureEndpoint
    /\ Len(agent.proxies) >= 1


C19_Terminates ==
  \A r \in Reqs : Called(r) ~> Ended(reqs[r])

C19_AnyFailureFails ==
  \A r \in Reqs :
    reqs[r].error # "none" \/ reqs[r].tlsState = "error" =>
      reqs[r].pc = "Failed" /\ reqs[r].returned = "none"

C19_LookupOrTunnelFailureFails ==
  \A r \in Reqs :
    /\ reqs[r].error # "none" =>
         reqs[r].pc = "Failed" /\ reqs[r].returned = "none"
    /\ reqs[r].pc \in {"Idle", "Resolving", "TunnelEstablishing", "Ready",
                       "Failed"}
    /\ reqs[r].tlsState = "error" =>
         reqs[r].pc = "Ready" /\ reqs[r].error = "none"

C20_HostnameOverHost ==
  pres.done =>
    /\ Truthy(popts.hostname) =>
         /\ pres.r.err.kind # "NoHost"
         /\ pres.r.err = NoError => pres.r.proxy.host = popts.hostname
    /\ ~Truthy(popts.hostname) /\ Truthy(popts.host) =>
         /\ pres.r.err.kind # "NoHost"
         /\ pres.r.err = NoError => pres.r.proxy.host = popts.host
    /\ ~Truthy(popts.hostname) /\ ~Truthy(popts.host) =>
         pres.r.err = TypeError("NoHost", Undef)

C20_Witness ==
  /\ pres.done
  /\ popts.hostname = Str(<<>>)
  /\ popts.host = Str(G)
  /\ pres.r.err = NoError
  /\ pres.r.proxy.host = Str(G)

====
